---- MODULE Spec2Model ----
(***************************************************************************)
(* Model of the unified LLM adapter of app/llm: the provider registry and  *)
(* the primary/fallback policy of LLMAdapter.generate (adapter.py), and    *)
(* the four provider adapters' request building and reply parsing          *)
(* (providers/openai.py, anthropic.py, gemini.py, ollama.py).              *)
(*                                                                         *)
(* One behaviour is one LLMAdapter.generate call.  The call is cut at its  *)
(* await points, so that "a provider call is in flight" is a state.        *)
(*                                                                         *)
(* Python values: a str-or-None is a string, None being the string None    *)
(* below; an object-or-None is a record, None being the record Nil.  A     *)
(* dict of JSON values is a set of <<key, value>> pairs, a JSON value a    *)
(* record [t |-> type, v |-> text].                                        *)
(***************************************************************************)
EXTENDS Integers, Sequences, FiniteSets, TLC

\* ------------------------------------------------------------------ bounds
MaxMsgs == 2
MaxParts == 2
MaxCalls == 2

\* --------------------------------------------------------- program constants
DefaultTemperatureTenths == 7
DefaultMaxTokens == 1024

\* ------------------------------------------------------------ Python values
None == "<None>"
Nil == [none |-> TRUE]

\* Python truthiness of a str-or-None: None and "" are falsy.
Truthy(s) == s # None /\ s # ""

\* --------------------------------------------------------------- the inputs
Roles == {"system", "user", "assistant"}

\* LLMMessage
Message(r, c) == [role |-> r, content |-> c]

RECURSIVE SeqsUpTo(_, _)
SeqsUpTo(S, n) ==
    IF n = 0 THEN {<<>>}
    ELSE LET shorter == SeqsUpTo(S, n - 1)
         IN  shorter \cup {Append(s, x) : s \in {t \in shorter : Len(t) = n - 1}, x \in S}

\* Conversations of the model: the k-th message has the k-th content, so
\* that the order of the contents is visible in a merged message.
ContentAt(k) ==
    CASE k % 4 = 1 -> "a" [] k % 4 = 2 -> "b" [] k % 4 = 3 -> "c" [] OTHER -> "d"
MessageLists ==
    {[k \in 1..Len(rs) |-> Message(rs[k], ContentAt(k))] : rs \in SeqsUpTo(Roles, MaxMsgs)}

\* A JSON-Schema property descriptor is a dict with a type; BadDescriptor is
\* a descriptor that is not a dict (parameters is Dict[str, Any]).
Descriptor(t) == [isdict |-> TRUE, type |-> t]
BadDescriptor == [isdict |-> FALSE, type |-> None]

\* ToolDefinition: name, description, parameters {type, properties, required}
SearchMenu ==
    [name |-> "search_menu", description |-> "Search the menu",
     parameters |-> [type |-> "object",
                     properties |-> {<<"query", Descriptor("string")>>},
                     required |-> {"query"}]]
AddItem ==
    [name |-> "add_item", description |-> "Add an item",
     parameters |-> [type |-> "object",
                     properties |-> {<<"qty", BadDescriptor>>},
                     required |-> {"qty"}]]
ToolLists == {<<>>, <<SearchMenu>>, <<AddItem>>}

\* ------------------------------------------------------ the provider registry
Registered == {"openai", "anthropic", "gemini", "ollama"}
ProviderIds == Registered \cup {"azure_openai", "", None}
Models == {"m1"}
FallbackModels == {None, "", "m2"}

\* An exception: which attempt raised it, its class, what it says, and the
\* exception that was being handled when it was raised (__context__).
Error(origin, kind, detail, ctx) ==
    [origin |-> origin, kind |-> kind, detail |-> detail, context |-> ctx]

\* LLMAdapter._get_provider_instance: the class registered for the name,
\* constructed with the model; ValueError for any other name.
_get_provider_instance_default(provider, model) ==
    IF provider \in Registered
    THEN [ok |-> TRUE, cls |-> provider, model |-> model]
    ELSE [ok |-> TRUE, cls |-> "openai", model |-> model]
_get_provider_instance(provider, model) ==
    IF provider \in Registered
    THEN [ok |-> TRUE, cls |-> provider, model |-> model]
    ELSE [ok |-> FALSE, kind |-> "ValueError", detail |-> "Unknown provider"]

\* ---------------------------------------------------------- request building
\* The arguments of one generate call.
Args(sp, ms, ts, temp, mt) ==
    [system_prompt |-> sp, messages |-> ms, tools |-> ts,
     temperature |-> temp, max_tokens |-> mt]

\* OpenAIProvider._convert_tools_to_provider_format (the Ollama adapter's is
\* the same): {type: function, function: {name, description, parameters}}.
OpenAIConvertTools(tools) ==
    [k \in 1..Len(tools) |->
        [type |-> "function",
         function |-> [name |-> tools[k].name,
                       description |-> tools[k].description,
                       parameters |-> tools[k].parameters]]]

\* AnthropicProvider._convert_tools_to_provider_format
AnthropicConvertTools(tools) ==
    [k \in 1..Len(tools) |->
        [name |-> tools[k].name,
         description |-> tools[k].description,
         input_schema |-> tools[k].parameters]]

\* GeminiProvider._map_type: unknown type strings map to STRING.
_map_type_number(json_type) ==
    CASE json_type = "string"  -> "STRING"
      [] json_type = "number"  -> "NUMBER"
      [] json_type = "integer" -> "NUMBER"
      [] json_type = "boolean" -> "BOOLEAN"
      [] json_type = "array"   -> "ARRAY"
      [] json_type = "object"  -> "OBJECT"
      [] OTHER                 -> "STRING"
_map_type(json_type) ==
    CASE json_type = "string"  -> "STRING"
      [] json_type = "number"  -> "NUMBER"
      [] json_type = "integer" -> "INTEGER"
      [] json_type = "boolean" -> "BOOLEAN"
      [] json_type = "array"   -> "ARRAY"
      [] json_type = "object"  -> "OBJECT"
      [] OTHER                 -> "STRING"

\* prop.get("type", "string") on a descriptor: AttributeError when the
\* descriptor is not a dict.
DescriptorsAreDicts(schema) == \A p \in schema.properties : p[2].isdict

\* GeminiProvider._convert_schema
_convert_schema(schema) ==
    IF schema.type = "object"
    THEN [type |-> "OBJECT",
          properties |->
              {<<p[1], [type |-> _map_type(IF p[2].type = None THEN "string"
                                           ELSE p[2].type),
                        description |-> ""]>> : p \in schema.properties},
          required |-> schema.required]
    ELSE [type |-> _map_type(IF schema.type = None THEN "string" ELSE schema.type),
          properties |-> {}, required |-> {}]

\* GeminiProvider._convert_tools_to_provider_format: one Tool holding the
\* function declarations; raises when a descriptor is not a dict.
GeminiConvertTools(tools) ==
    IF \A k \in 1..Len(tools) :
          tools[k].parameters.type = "object" => DescriptorsAreDicts(tools[k].parameters)
    THEN [ok |-> TRUE,
          tools |-> <<[function_declarations |->
                        [k \in 1..Len(tools) |->
                            [name |-> tools[k].name,
                             description |-> tools[k].description,
                             parameters |-> _convert_schema(tools[k].parameters)]]]>>]
    ELSE [ok |-> FALSE, kind |-> "AttributeError", detail |-> "no attribute get"]

\* OpenAIProvider.generate, up to the API call: the system prompt as the
\* leading message, the tools and tool_choice only when there are tools.
OpenAIRequest(model, a) ==
    [ok |-> TRUE, aliased |-> FALSE, after |-> a.messages,
     keys |-> {"model", "messages", "temperature", "max_tokens"}
              \cup (IF a.tools # <<>> THEN {"tools", "tool_choice"} ELSE {}),
     model |-> model,
     messages |-> <<Message("system", a.system_prompt)>> \o a.messages,
     temperature |-> a.temperature,
     max_tokens |-> a.max_tokens,
     tools |-> IF a.tools # <<>> THEN OpenAIConvertTools(a.tools) ELSE <<>>,
     tool_choice |-> IF a.tools # <<>> THEN "auto" ELSE None]

\* AnthropicProvider.generate, first loop: one new dict per message, a
\* system role rewritten to user.  The dicts are new objects, not the
\* caller's messages (aliased is FALSE).
AnthropicMessages_system(messages) ==
    [aliased |-> FALSE,
     dicts |-> [k \in 1..Len(messages) |->
                   Message(messages[k].role, messages[k].content)]]
AnthropicMessages_aliased(messages) ==
    [aliased |-> TRUE,
     dicts |-> [k \in 1..Len(messages) |->
                   Message(IF messages[k].role # "system" THEN messages[k].role
                           ELSE "user",
                           messages[k].content)]]
AnthropicMessages(messages) ==
    [aliased |-> FALSE,
     dicts |-> [k \in 1..Len(messages) |->
                   Message(IF messages[k].role # "system" THEN messages[k].role
                           ELSE "user",
                           messages[k].content)]]

\* AnthropicProvider.generate, second loop: processed_messages holds
\* references to the dicts (indices here); a message whose role is last_role
\* is appended, after a newline, to the content of the dict the last
\* reference points to.
RECURSIVE MergeFrom_reversed(_, _, _, _)
RECURSIVE MergeFrom(_, _, _, _)
MergeFrom_reversed(dicts, refs, last_role, k) ==
    IF k > Len(dicts) THEN [dicts |-> dicts, refs |-> refs]
    ELSE IF dicts[k].role = last_role
         THEN LET tgt == refs[Len(refs)]
              IN  MergeFrom_reversed(
                      [dicts EXCEPT ![tgt].content = dicts[k].content \o "\n" \o @],
                      refs, last_role, k + 1)
         ELSE MergeFrom_reversed(dicts, Append(refs, k), dicts[k].role, k + 1)
MergeFrom(dicts, refs, last_role, k) ==
    IF k > Len(dicts) THEN [dicts |-> dicts, refs |-> refs]
    ELSE IF dicts[k].role = last_role
         THEN LET tgt == refs[Len(refs)]
              IN  MergeFrom([dicts EXCEPT ![tgt].content = @ \o "\n" \o dicts[k].content],
                            refs, last_role, k + 1)
         ELSE MergeFrom(dicts, Append(refs, k), dicts[k].role, k + 1)

\* `processed_messages if processed_messages else [{"role": "user",
\* "content": "Hello"}]`
OrHello_empty(processed_messages) == processed_messages
OrHello(processed_messages) ==
    IF processed_messages # <<>> THEN processed_messages
    ELSE <<Message("user", "Hello")>>

\* AnthropicProvider.generate, up to the API call.  after is the state of
\* the caller's message objects once the request is built: they change only
\* if the merged dicts are the caller's objects.
AnthropicRequest(model, a) ==
    LET am == AnthropicMessages(a.messages)
        m == MergeFrom(am.dicts, <<>>, None, 1)
        processed_messages == [k \in 1..Len(m.refs) |-> m.dicts[m.refs[k]]]
    IN  [ok |-> TRUE, aliased |-> am.aliased, after |-> m.dicts,
         keys |-> {"model", "max_tokens", "system", "messages"}
                  \cup (IF a.tools # <<>> THEN {"tools"} ELSE {}),
         model |-> model,
         max_tokens |-> a.max_tokens,
         system |-> a.system_prompt,
         messages |-> OrHello(processed_messages),
         tools |-> IF a.tools # <<>> THEN AnthropicConvertTools(a.tools) ELSE <<>>]

\* GeminiProvider.generate, up to the API call: history without its last
\* entry starts the chat, the last entry (or "Hello") follows the system
\* prompt in the message sent.
GeminiRequest(model, a) ==
    LET history == [k \in 1..Len(a.messages) |->
                       [role |-> IF a.messages[k].role = "user" THEN "user" ELSE "model",
                        parts |-> <<a.messages[k].content>>]]
        last_message == IF history # <<>> THEN history[Len(history)].parts[1] ELSE "Hello"
        conv == GeminiConvertTools(a.tools)
    IN  IF a.tools # <<>> /\ ~conv.ok
        THEN [ok |-> FALSE, kind |-> conv.kind, detail |-> conv.detail]
        ELSE [ok |-> TRUE, aliased |-> FALSE, after |-> a.messages,
              keys |-> {"generation_config"}
                       \cup (IF a.tools # <<>> THEN {"tools"} ELSE {}),
              model |-> model,
              history |-> IF history # <<>> THEN SubSeq(history, 1, Len(history) - 1)
                          ELSE <<>>,
              message |-> a.system_prompt \o "\n\n" \o last_message,
              temperature |-> a.temperature,
              max_output_tokens |-> a.max_tokens,
              tools |-> IF a.tools # <<>> THEN conv.tools ELSE <<>>]

\* OllamaProvider.generate, up to the HTTP call (one POST, timeout 60 s).
OllamaRequest(model, a) ==
    [ok |-> TRUE, aliased |-> FALSE, after |-> a.messages,
     keys |-> {"model", "messages", "stream", "options"}
              \cup (IF a.tools # <<>> THEN {"tools"} ELSE {}),
     model |-> model,
     messages |-> <<Message("system", a.system_prompt)>> \o a.messages,
     temperature |-> a.temperature,
     num_predict |-> a.max_tokens,
     tools |-> IF a.tools # <<>> THEN OpenAIConvertTools(a.tools) ELSE <<>>]

\* The request the adapter of class cls builds from the arguments.
BuildRequest(cls, model, a) ==
    CASE cls = "openai"    -> OpenAIRequest(model, a)
      [] cls = "anthropic" -> AnthropicRequest(model, a)
      [] cls = "gemini"    -> GeminiRequest(model, a)
      [] cls = "ollama"    -> OllamaRequest(model, a)

\* ------------------------------------------------------- the provider replies
\* What a provider call can come back with: an exception raised by the
\* client (status "error"), or a reply envelope of the provider's shape.
FailureKinds == {"NetworkError", "ProviderRejection"}
Failures == {[status |-> "error", kind |-> k, detail |-> "vendor body"] : k \in FailureKinds}

ArgsJson == "{\"query\": \"pizza\"}"
BadJson == "{\"query\": "
PizzaArgs == {<<"query", [t |-> "string", v |-> "pizza"]>>}

\* json.loads on the strings of the model: the decoded dict, or
\* JSONDecodeError.
JsonLoads(s) ==
    CASE s = ArgsJson -> [ok |-> TRUE, value |-> PizzaArgs]
      [] s = "{}"     -> [ok |-> TRUE, value |-> {}]
      [] OTHER        -> [ok |-> FALSE, kind |-> "JSONDecodeError", detail |-> s]

Usage(p, c, t) == [prompt_tokens |-> p, completion_tokens |-> c, total_tokens |-> t]

\* OpenAI: choices[0].message has content (or None) and tool_calls, whose
\* arguments are a serialized string; usage may be missing.
OpenAIToolCalls ==
    {[name |-> "search_menu", arguments |-> ArgsJson],
     [name |-> "add_item", arguments |-> BadJson]}
OpenAIReplies ==
    {[status |-> "ok", choices |-> ch, usage |-> u] :
        ch \in {<<>>} \cup {<<[content |-> c, tool_calls |-> tc]>> :
                              c \in {None, "hi"},
                              tc \in SeqsUpTo(OpenAIToolCalls, MaxParts)},
        u \in {Nil, Usage(1, 2, 3)}}

\* Anthropic: content is a list of text and tool_use blocks; usage is
\* always reported.
AnthropicBlocks ==
    {[type |-> "text", text |-> "hi", name |-> None, input |-> {}],
     [type |-> "tool_use", text |-> None, name |-> "search_menu", input |-> PizzaArgs],
     [type |-> "tool_use", text |-> None, name |-> "add_item", input |-> {}]}
AnthropicReplies ==
    {[status |-> "ok", content |-> bs, usage |-> [input_tokens |-> 1, output_tokens |-> 2]] :
        bs \in SeqsUpTo(AnthropicBlocks, MaxParts)}

\* Gemini: candidates, each a list of parts; a part carries a function
\* call (Nil when unset) or text ("" when unset).
GeminiParts ==
    {[function_call |-> Nil, text |-> "hi"],
     [function_call |-> [name |-> "search_menu", args |-> PizzaArgs], text |-> ""],
     [function_call |-> [name |-> "add_item", args |-> {}], text |-> ""]}
\* A part list cut into candidates after the positions in cuts.
RECURSIVE Candidates(_, _, _)
Candidates(parts, cuts, from) ==
    IF \E k \in cuts : k >= from
    THEN LET k == CHOOSE c \in cuts : c >= from /\ \A d \in cuts : d >= from => c <= d
         IN  <<SubSeq(parts, from, k)>> \o Candidates(parts, cuts, k + 1)
    ELSE <<SubSeq(parts, from, Len(parts))>>
GeminiReplies ==
    {[status |-> "ok", candidates |-> <<>>]} \cup
    {[status |-> "ok", candidates |-> Candidates(ps, cuts, 1)] :
        <<ps, cuts>> \in {pc \in SeqsUpTo(GeminiParts, MaxParts) \X SUBSET (1..MaxParts) :
                             pc[2] \subseteq 1..(Len(pc[1]) - 1)}}

\* Ollama: the JSON body.  Absent marks a key the body does not have, -1 a
\* count the body does not have.  Tool call arguments come as a serialized
\* string, as a JSON object, or not at all.
Absent == [absent |-> TRUE]
OllamaArguments ==
    {[t |-> "str", v |-> ArgsJson], [t |-> "dict", v |-> ""], Absent}
OllamaToolCalls ==
    {[name |-> "search_menu", arguments |-> a] : a \in OllamaArguments}
OllamaMoreToolCalls ==
    {[name |-> "add_item", arguments |-> [t |-> "dict", v |-> ""]]}
\* The tool_calls lists: none, or a first call of any shape followed by
\* further calls.
OllamaToolCallLists ==
    {<<>>} \cup {<<first>> \o more : first \in OllamaToolCalls,
                                   more \in SeqsUpTo(OllamaMoreToolCalls, MaxParts - 1)}
OllamaCounts == {<<-1, -1>>, <<-1, 1>>, <<0, -1>>, <<2, 1>>}
OllamaReplies ==
    {[status |-> "ok", content |-> c, tool_calls |-> tc,
      eval_count |-> n[1], prompt_eval_count |-> n[2]] :
        c \in {None, "hi"},
        tc \in OllamaToolCallLists,
        n \in OllamaCounts}
    \cup {[status |-> "error", kind |-> "DeserializationError", detail |-> "not json"]}

\* Every provider call can also fail.
OpenAIOutcomes == Failures \cup OpenAIReplies
AnthropicOutcomes == Failures \cup AnthropicReplies
GeminiOutcomes == Failures \cup GeminiReplies
OllamaOutcomes == Failures \cup OllamaReplies
Replies(cls) ==
    CASE cls = "openai"    -> OpenAIOutcomes
      [] cls = "anthropic" -> AnthropicOutcomes
      [] cls = "gemini"    -> GeminiOutcomes
      [] cls = "ollama"    -> OllamaOutcomes

\* The tool calls of a reply envelope in reply order, as the adapter of
\* class cls reads them: OpenAI's and Ollama's message.tool_calls,
\* Anthropic's tool_use blocks, Gemini's function_call parts over all
\* candidates.
RECURSIVE Flatten(_)
Flatten(seqs) == IF seqs = <<>> THEN <<>> ELSE Head(seqs) \o Flatten(Tail(seqs))
IsToolUse(block) == block.type = "tool_use"
IsFunctionCall(part) == part.function_call # Nil
ToolCallsOf(cls, r) ==
    CASE cls = "openai"    -> IF r.choices = <<>> THEN <<>> ELSE r.choices[1].tool_calls
      [] cls = "anthropic" -> SelectSeq(r.content, IsToolUse)
      [] cls = "gemini"    -> LET parts == SelectSeq(Flatten(r.candidates), IsFunctionCall)
                              IN  [k \in 1..Len(parts) |-> parts[k].function_call]
      [] cls = "ollama"    -> r.tool_calls

\* The reply envelope carries prose: message content, a text block, a text
\* part.
HasProse(cls, r) ==
    CASE cls = "openai"    -> r.choices # <<>> /\ Truthy(r.choices[1].content)
      [] cls = "anthropic" -> \E k \in 1..Len(r.content) : r.content[k].type = "text"
      [] cls = "gemini"    -> \E k \in 1..Len(Flatten(r.candidates)) :
                                 /\ ~IsFunctionCall(Flatten(r.candidates)[k])
                                 /\ Flatten(r.candidates)[k].text # ""
      [] cls = "ollama"    -> Truthy(r.content)

\* ------------------------------------------------------------ reply parsing
ToolCall(name, arguments) == [name |-> name, arguments |-> arguments]

\* LLMGenerateResponse
Response(type, content, tool_call, usage, provider, model) ==
    [type |-> type, content |-> content, tool_call |-> tool_call,
     usage |-> usage, provider |-> provider, model |-> model]

Parsed(resp) == [ok |-> TRUE, response |-> resp]
ParseError(kind, detail) == [ok |-> FALSE, kind |-> kind, detail |-> detail]

\* OpenAIProvider.generate, after the API call: the first tool call if
\* there is one, with its arguments decoded, else the message content.
OpenAIParse(model, r) ==
    IF r.choices = <<>> THEN ParseError("IndexError", "choices")
    ELSE LET message == r.choices[1]
             result == Response("text", None, Nil,
                                IF r.usage # Nil THEN r.usage ELSE Nil,
                                "openai", model)
         IN  IF message.tool_calls # <<>>
             THEN LET tool_call == message.tool_calls[1]
                      decoded == JsonLoads(tool_call.arguments)
                  IN  IF decoded.ok
                      THEN Parsed([result EXCEPT
                                      !.type = "tool_call",
                                      !.tool_call = ToolCall(tool_call.name, decoded.value)])
                      ELSE ParseError(decoded.kind, decoded.detail)
             ELSE Parsed([result EXCEPT !.content = message.content])

\* AnthropicProvider.generate, the loop over response.content: a text
\* block sets content, the first tool_use block sets tool_call and ends
\* the loop.
RECURSIVE AnthropicScan(_, _, _)
AnthropicScan(result, content, k) ==
    IF k > Len(content) THEN result
    ELSE IF content[k].type = "tool_use"
         THEN [result EXCEPT !.type = "tool_call",
                             !.tool_call = ToolCall(content[k].name, content[k].input)]
         ELSE IF content[k].type = "text"
              THEN AnthropicScan([result EXCEPT !.content = content[k].text], content, k + 1)
              ELSE AnthropicScan(result, content, k + 1)

\* AnthropicProvider.generate, after the API call.
AnthropicParse(model, r) ==
    Parsed(AnthropicScan(
        Response("text", None, Nil,
                 Usage(r.usage.input_tokens, r.usage.output_tokens,
                       r.usage.input_tokens + r.usage.output_tokens),
                 "anthropic", model),
        r.content, 1))

\* GeminiProvider.generate, the inner loop over one candidate's parts: a
\* function call sets tool_call and ends this loop; text sets content.
RECURSIVE GeminiScanParts(_, _, _)
GeminiScanParts(result, parts, k) ==
    IF k > Len(parts) THEN result
    ELSE IF parts[k].function_call # Nil
         THEN [result EXCEPT !.type = "tool_call",
                             !.tool_call = ToolCall(parts[k].function_call.name,
                                                    parts[k].function_call.args)]
         ELSE IF parts[k].text # ""
              THEN GeminiScanParts([result EXCEPT !.content = parts[k].text], parts, k + 1)
              ELSE GeminiScanParts(result, parts, k + 1)

\* GeminiProvider.generate, the outer loop: every candidate is scanned.
RECURSIVE GeminiScanCandidates(_, _, _)
GeminiScanCandidates(result, candidates, c) ==
    IF c > Len(candidates) THEN result
    ELSE GeminiScanCandidates(GeminiScanParts(result, candidates[c], 1), candidates, c + 1)

\* GeminiProvider.generate, after the API call; no usage is extracted.
GeminiParse(model, r) ==
    Parsed(GeminiScanCandidates(Response("text", None, Nil, Nil, "gemini", model),
                                r.candidates, 1))

\* OllamaProvider.generate, after the HTTP call: the first tool call with
\* its arguments decoded ("{}" when the key is missing; json.loads of a
\* dict is a TypeError), else the content ("" when missing); usage only
\* when eval_count is in the body, a missing prompt_eval_count counting 0.
OllamaParse(model, r) ==
    LET usage == IF r.eval_count # -1
                 THEN LET pt == IF r.prompt_eval_count # -1 THEN r.prompt_eval_count ELSE 0
                      IN  Usage(pt, r.eval_count, pt + r.eval_count)
                 ELSE Nil
        result == Response("text", None, Nil, usage, "ollama", model)
    IN  IF r.tool_calls # <<>>
        THEN LET tool_call == r.tool_calls[1]
                 decoded == IF tool_call.arguments = Absent THEN JsonLoads("{}")
                            ELSE IF tool_call.arguments.t = "str"
                                 THEN JsonLoads(tool_call.arguments.v)
                                 ELSE ParseError("TypeError", "not str")
             IN  IF decoded.ok
                 THEN Parsed([result EXCEPT
                                 !.type = "tool_call",
                                 !.tool_call = ToolCall(tool_call.name, decoded.value)])
                 ELSE ParseError(decoded.kind, decoded.detail)
        ELSE Parsed([result EXCEPT !.content = IF r.content = None THEN "" ELSE r.content])

\* What the adapter of class cls makes of a reply: the exception of the
\* call itself, or the parsed response, or the exception parsing raised.
ParseReply(cls, model, r) ==
    IF r.status = "error" THEN ParseError(r.kind, r.detail)
    ELSE CASE cls = "openai"    -> OpenAIParse(model, r)
           [] cls = "anthropic" -> AnthropicParse(model, r)
           [] cls = "gemini"    -> GeminiParse(model, r)
           [] cls = "ollama"    -> OllamaParse(model, r)

\* ------------------------------------------------- LLMAdapter.generate: state
VARIABLES
    provider, model, fallback_provider, fallback_model, \* the LLMAdapter's fields
    given,        \* the arguments the caller passed to LLMAdapter.generate
    messages,     \* the caller's message objects as they are now
    pc,           \* where the call is: start, primary_wait, handler, fallback_wait, done
    inflight,     \* the attempts whose provider call is awaiting its reply
    resolved,     \* per attempt: what _get_provider_instance gave (Nil before)
    received,     \* per attempt: the arguments the provider's generate got
    request,      \* per attempt: the outbound request
    invoked,      \* per attempt: number of provider generate invocations
    sent,         \* per attempt: number of outbound provider calls
    attempt,      \* per attempt: how the provider's generate ended
    e,            \* the exception the primary attempt raised (Nil if none)
    outcome,      \* how LLMAdapter.generate ended (Nil while running)
    reply,        \* per attempt: what the provider call came back with
    tenant,       \* the tenant's row (Nil if there is none)
    rq,           \* the LLMGenerateRequest the entry point got (Nil if none)
    http,         \* the entry point's answer (Nil until it answers)
    adapters,     \* concurrent calls: the fields of the LLMAdapter objects
    calls,        \* concurrent calls: where each generate call is
    genai         \* concurrent calls: the api key genai is configured with

vars == <<provider, model, fallback_provider, fallback_model, given, messages,
          pc, inflight, resolved, received, request, invoked, sent, attempt,
          e, outcome, reply, tenant, rq, http, adapters, calls, genai>>

concurrent == <<adapters, calls, genai>>

entry == <<tenant, rq, http>>

config == <<provider, model, fallback_provider, fallback_model, given>>

Attempts == {"primary", "fallback"}

Return(resp) == [kind |-> "return", response |-> resp, error |-> Nil]
Raise(err) == [kind |-> "raise", response |-> Nil, error |-> err]

\* The arguments as a provider's generate sees them: the caller's objects
\* in their present state.
CurrentArgs == [given EXCEPT !.messages = messages]

\* The arguments of a generate call: any conversation without tools, or a
\* one-message conversation with any tool list.
GenerateArgs ==
    {Args("You are Samm", ms, <<>>, DefaultTemperatureTenths, DefaultMaxTokens) :
        ms \in MessageLists}
    \cup {Args("You are Samm", <<Message("user", "a")>>, ts,
               DefaultTemperatureTenths, DefaultMaxTokens) : ts \in ToolLists}

\* LLMAdapter.__init__ with any provider names and models, and a call of
\* generate with any of these arguments.
Init ==
    /\ provider \in ProviderIds
    /\ model \in Models
    /\ fallback_provider \in ProviderIds
    /\ fallback_model \in FallbackModels
    /\ given \in GenerateArgs
    /\ messages = given.messages
    /\ pc = "start"
    /\ inflight = {}
    /\ resolved = [a \in Attempts |-> Nil]
    /\ received = [a \in Attempts |-> Nil]
    /\ request = [a \in Attempts |-> Nil]
    /\ invoked = [a \in Attempts |-> 0]
    /\ sent = [a \in Attempts |-> 0]
    /\ attempt = [a \in Attempts |-> Nil]
    /\ e = Nil
    /\ outcome = Nil
    /\ reply = [a \in Attempts |-> Nil]
    /\ adapters = <<>> /\ calls = <<>> /\ genai = None
    /\ tenant = Nil
    /\ rq = Nil
    /\ http = Nil

\* `if self.fallback_provider and self.fallback_model`
FallbackConfigured_provider == Truthy(fallback_provider)
FallbackConfigured_registered ==
    Truthy(fallback_provider) /\ Truthy(fallback_model) /\ fallback_provider \in Registered
FallbackConfigured_either == Truthy(fallback_provider) \/ Truthy(fallback_model)
FallbackConfigured == Truthy(fallback_provider) /\ Truthy(fallback_model)

\* The instance of the primary attempt and of the fallback attempt.
PrimaryInstance == _get_provider_instance(provider, model)
FallbackInstance_primary == _get_provider_instance(provider, model)
FallbackInstance == _get_provider_instance(fallback_provider, fallback_model)

\* `except Exception as e`: the handler runs once the try body has raised.
HandlerEntered_hedged == pc \in {"handler", "primary_wait"}
HandlerEntered == pc = "handler"

\* Where the call goes when the primary's generate has ended: `return
\* response` ends the call, an exception enters the handler.
AfterPrimary_finally(att) == "handler"
AfterPrimary(att) == IF att.kind = "raise" THEN "handler" ELSE "done"

\* Where the call goes when the fallback's generate has ended: it ends,
\* returning the response or raising.
AfterFallback_retry(att) == IF att.kind = "raise" THEN "handler" ELSE "done"
AfterFallback(att) == "done"

\* `raise fallback_error` in the handler of e.
Reraised_primary(fallback_error) == e
Reraised(fallback_error) == fallback_error

\* One provider generate invocation up to its await: the request is built
\* and, unless building raised, the one provider call is issued.
Invoke(a, inst, ctx, next_wait, next_fail) ==
    LET req == BuildRequest(inst.cls, inst.model, CurrentArgs)
    IN  /\ received' = [received EXCEPT ![a] = CurrentArgs]
        /\ invoked' = [invoked EXCEPT ![a] = @ + 1]
        /\ IF req.ok
           THEN /\ request' = [request EXCEPT ![a] = req]
                /\ sent' = [sent EXCEPT ![a] = @ + 1]
                /\ inflight' = inflight \cup {a}
                /\ messages' = IF req.aliased THEN req.after ELSE messages
                /\ pc' = next_wait
                /\ UNCHANGED attempt
           ELSE /\ attempt' = [attempt EXCEPT ![a] = Raise(Error(a, req.kind, req.detail, ctx))]
                /\ pc' = next_fail
                /\ UNCHANGED <<request, sent, inflight, messages>>

\* adapter.py 66-74: resolve the primary instance and call its generate.
PrimaryStart ==
    /\ pc = "start"
    /\ resolved' = [resolved EXCEPT !["primary"] = PrimaryInstance]
    /\ IF PrimaryInstance.ok
       THEN /\ Invoke("primary", PrimaryInstance, Nil, "primary_wait", "handler")
            /\ e' = IF attempt'["primary"] # Nil THEN attempt'["primary"].error ELSE Nil
            /\ UNCHANGED outcome
       ELSE /\ e' = Error("primary", PrimaryInstance.kind, PrimaryInstance.detail, Nil)
            /\ pc' = "handler"
            /\ UNCHANGED <<messages, inflight, received, request, invoked, sent,
                           attempt, outcome>>
    /\ UNCHANGED <<config, reply, entry>>
    /\ UNCHANGED concurrent

\* adapter.py 68-75 and the provider's generate after its await: the
\* provider call comes back; the response is returned, or the exception of
\* the call or of the parsing enters the handler.
PrimaryReply ==
    /\ pc = "primary_wait"
    /\ "primary" \in inflight
    /\ \E r \in Replies(resolved["primary"].cls) :
          LET p == ParseReply(resolved["primary"].cls, resolved["primary"].model, r)
              att == IF p.ok THEN Return(p.response)
                     ELSE Raise(Error("primary", p.kind, p.detail, Nil))
          IN  /\ reply' = [reply EXCEPT !["primary"] = r]
              /\ attempt' = [attempt EXCEPT !["primary"] = att]
              /\ e' = att.error
              /\ outcome' = IF p.ok THEN att ELSE outcome
              /\ pc' = AfterPrimary(att)
    /\ inflight' = inflight \ {"primary"}
    /\ UNCHANGED <<config, messages, resolved, received, request, invoked, sent, entry>>
    /\ UNCHANGED concurrent

\* adapter.py 77-110, up to the fallback's await: without a fallback pair
\* the primary's exception is raised again; with one, the fallback instance
\* is resolved and its generate called.
Handler ==
    /\ HandlerEntered
    /\ IF FallbackConfigured
       THEN /\ resolved' = [resolved EXCEPT !["fallback"] = FallbackInstance]
            /\ IF FallbackInstance.ok
               THEN /\ Invoke("fallback", FallbackInstance, e, "fallback_wait", "done")
                    /\ outcome' = IF attempt'["fallback"] # Nil
                                  THEN Raise(Reraised(attempt'["fallback"].error))
                                  ELSE outcome
               ELSE /\ outcome' = Raise(Reraised(Error("fallback", FallbackInstance.kind,
                                                       FallbackInstance.detail, e)))
                    /\ pc' = "done"
                    /\ UNCHANGED <<messages, inflight, received, request, invoked,
                                   sent, attempt>>
       ELSE /\ outcome' = Raise(e)
            /\ pc' = "done"
            /\ UNCHANGED <<messages, inflight, resolved, received, request, invoked,
                           sent, attempt>>
    /\ UNCHANGED <<config, e, reply, entry>>
    /\ UNCHANGED concurrent

\* adapter.py 92-108 and the provider's generate after its await: the
\* fallback's response is returned, or its exception raised.
FallbackReply ==
    /\ pc = "fallback_wait"
    /\ "fallback" \in inflight
    /\ \E r \in Replies(resolved["fallback"].cls) :
          LET p == ParseReply(resolved["fallback"].cls, resolved["fallback"].model, r)
              att == IF p.ok THEN Return(p.response)
                     ELSE Raise(Error("fallback", p.kind, p.detail, e))
          IN  /\ reply' = [reply EXCEPT !["fallback"] = r]
              /\ attempt' = [attempt EXCEPT !["fallback"] = att]
              /\ outcome' = IF p.ok THEN att ELSE Raise(Reraised(att.error))
              /\ pc' = AfterFallback(att)
    /\ inflight' = inflight \ {"fallback"}
    /\ UNCHANGED <<config, messages, resolved, received, request, invoked, sent, e,
                   entry>>
    /\ UNCHANGED concurrent

Next == PrimaryStart \/ PrimaryReply \/ Handler \/ FallbackReply

Spec == Init /\ [][Next]_vars

\* How a call of generate, or one attempt of it, has ended.
Done == pc = "done"
Returned(o) == o # Nil /\ o.kind = "return"
Raised(o) == o # Nil /\ o.kind = "raise"

\* ------------------------------------- the entry point and the tenant's row
\* A field the body of a PUT did not carry (model_dump(exclude_unset=True)
\* leaves it out); reading it gives the schema's default, None.
Unset == "<unset>"
Field(v) == IF v = Unset THEN None ELSE v

\* Python's `a or b`.
Or(a, b) == IF Truthy(a) THEN a ELSE b

AVAILABLE_PROVIDERS == {"openai", "anthropic", "gemini", "azure_openai", "ollama"}

UserRoles == {"super_admin", "restaurant_admin", "staff_viewer"}

\* A dashboard user as the handlers see it: its role, and whether its
\* tenant_id is the tenant_id of the path.
Users == [role : UserRoles, own : BOOLEAN]

RoleLevel(role) ==
    CASE role = "staff_viewer" -> 1
      [] role = "restaurant_admin" -> 2
      [] role = "super_admin" -> 3
      [] OTHER -> 0
has_permission(user, required_role) == RoleLevel(user.role) >= RoleLevel(required_role)

\* TRUE when access is granted, FALSE when 403 is raised.
verify_tenant_access_admins(user) == user.role # "staff_viewer" \/ user.own
verify_tenant_access(user) == user.role = "super_admin" \/ user.own

\* The column defaults a tenant's row is inserted with.
TenantDefaults ==
    [llm_provider |-> "openai", llm_model |-> "gpt-4-turbo",
     fallback_llm_provider |-> "anthropic",
     fallback_llm_model |-> "claude-3-sonnet-20240229"]

\* Bodies of PUT llm-config: every field may be left out, null, or a string.
LLMConfigUpdates ==
    [llm_provider : {Unset, None, "azure_openai", "bogus"},
     llm_model : {Unset, None},
     fallback_llm_provider : {Unset, None, "gemini", "bogus"},
     fallback_llm_model : {Unset, None}]

SetAttr(old, value) == IF value = Unset THEN old ELSE value

\* update_llm_config: the status it answers with and the row it leaves.
\* (The row is committed before the response model is built.)
update_llm_config(user, cfg, t) ==
    IF ~verify_tenant_access(user) THEN [status_code |-> 403, tenant |-> t]
    ELSE IF ~has_permission(user, "restaurant_admin") THEN [status_code |-> 403, tenant |-> t]
    ELSE IF t = Nil THEN [status_code |-> 404, tenant |-> t]
    ELSE IF Truthy(Field(cfg.llm_provider)) /\ Field(cfg.llm_provider) \notin AVAILABLE_PROVIDERS
         THEN [status_code |-> 400, tenant |-> t]
    ELSE IF Truthy(Field(cfg.fallback_llm_provider))
              /\ Field(cfg.fallback_llm_provider) \notin AVAILABLE_PROVIDERS
         THEN [status_code |-> 400, tenant |-> t]
    ELSE [status_code |-> 200,
          tenant |-> [llm_provider |-> SetAttr(t.llm_provider, cfg.llm_provider),
                      llm_model |-> SetAttr(t.llm_model, cfg.llm_model),
                      fallback_llm_provider |->
                          SetAttr(t.fallback_llm_provider, cfg.fallback_llm_provider),
                      fallback_llm_model |->
                          SetAttr(t.fallback_llm_model, cfg.fallback_llm_model)]]

\* provider and model of an LLMGenerateRequest: both optional.
EntryRequests == [provider : {None, "", "ollama"}, model : {None, "m1"}]

\* router.py 42-55: what the LLMAdapter is constructed with.
ResolveConfig_settings(r, t) ==
    IF t # Nil
    THEN [provider |-> Or(r.provider, t.llm_provider),
          model |-> Or(r.model, t.llm_model),
          fallback_provider |-> t.fallback_llm_provider,
          fallback_model |-> t.fallback_llm_model]
    ELSE [provider |-> Or(r.provider, "openai"),
          model |-> Or(r.model, "gpt-4-turbo"),
          fallback_provider |-> TenantDefaults.fallback_llm_provider,
          fallback_model |-> TenantDefaults.fallback_llm_model]
ResolveConfig(r, t) ==
    IF t # Nil
    THEN [provider |-> Or(r.provider, t.llm_provider),
          model |-> Or(r.model, t.llm_model),
          fallback_provider |-> t.fallback_llm_provider,
          fallback_model |-> t.fallback_llm_model]
    ELSE [provider |-> Or(r.provider, "openai"),
          model |-> Or(r.model, "gpt-4-turbo"),
          fallback_provider |-> None,
          fallback_model |-> None]

\* str(e) of the exception LLMAdapter.generate raised.
str(err) == err.detail

\* router.py 84-90 and 82: the answer of POST /generate.
ErrorResponse(err) == [status_code |-> 500, detail |-> str(err)]
OkResponse(resp) == [status_code |-> 200, body |-> resp]

\* The arguments of the one generate request of the entry point's model.
EntryArgs ==
    Args("You are Samm", <<Message("user", "a")>>, <<>>,
         DefaultTemperatureTenths, DefaultMaxTokens)

\* A tenant with its freshly inserted row, or no row for the tenant_id, and
\* a generate request not yet handled.
InitEntry ==
    /\ tenant \in {Nil, TenantDefaults}
    /\ rq \in EntryRequests
    /\ http = Nil
    /\ provider = None /\ model = None
    /\ fallback_provider = None /\ fallback_model = None
    /\ given = EntryArgs
    /\ messages = given.messages
    /\ pc = "entry"
    /\ inflight = {}
    /\ resolved = [a \in Attempts |-> Nil]
    /\ received = [a \in Attempts |-> Nil]
    /\ request = [a \in Attempts |-> Nil]
    /\ invoked = [a \in Attempts |-> 0]
    /\ sent = [a \in Attempts |-> 0]
    /\ attempt = [a \in Attempts |-> Nil]
    /\ e = Nil
    /\ outcome = Nil
    /\ reply = [a \in Attempts |-> Nil]
    /\ adapters = <<>> /\ calls = <<>> /\ genai = None

adapter == <<messages, inflight, resolved, received, request, invoked, sent,
             attempt, e, outcome, reply>>

\* PUT llm-config by some user with some body, before the generate request.
\* The answer of a tenant-scoped operation to the user who called it.
Answer(op, user, status_code) == [op |-> op, user |-> user, status_code |-> status_code]

\* calls.py 21-34: list_calls answers 403 when access is denied, else the
\* page of calls.
list_calls(user) == IF ~verify_tenant_access(user) THEN 403 ELSE 200

UpdateLLMConfig ==
    /\ pc = "entry"
    /\ \E user \in Users, cfg \in LLMConfigUpdates :
          LET r == update_llm_config(user, cfg, tenant)
          IN  /\ tenant' = r.tenant
              /\ http' = Answer("update_llm_config", user, r.status_code)
    /\ pc' = "answered"
    /\ UNCHANGED <<config, adapter, rq>>
    /\ UNCHANGED concurrent

\* GET calls of the tenant by some user.
ListCalls ==
    /\ pc = "entry"
    /\ \E user \in Users : http' = Answer("list_calls", user, list_calls(user))
    /\ pc' = "answered"
    /\ UNCHANGED <<config, adapter, tenant, rq>>
    /\ UNCHANGED concurrent

\* The answer has gone to its client; the next request can come.
Answered ==
    /\ pc = "answered"
    /\ http' = Nil
    /\ pc' = "entry"
    /\ UNCHANGED <<config, adapter, tenant, rq>>
    /\ UNCHANGED concurrent

\* router.py 36-63: the tenant's row is read and the LLMAdapter constructed.
RouterGenerate ==
    /\ pc = "entry"
    /\ LET c == ResolveConfig(rq, tenant)
       IN  /\ provider' = c.provider
           /\ model' = c.model
           /\ fallback_provider' = c.fallback_provider
           /\ fallback_model' = c.fallback_model
    /\ pc' = "start"
    /\ UNCHANGED <<given, adapter, entry>>
    /\ UNCHANGED concurrent

\* router.py 82-90: the response is returned, or the exception answered
\* with an HTTPException.
RouterRespond ==
    /\ pc = "done"
    /\ http' = IF Returned(outcome) THEN OkResponse(outcome.response)
               ELSE ErrorResponse(outcome.error)
    /\ pc' = "responded"
    /\ UNCHANGED <<config, adapter, tenant, rq>>
    /\ UNCHANGED concurrent

NextEntry ==
    \/ UpdateLLMConfig
    \/ ListCalls
    \/ Answered
    \/ RouterGenerate
    \/ PrimaryStart \/ PrimaryReply \/ Handler \/ FallbackReply
    \/ RouterRespond

SpecEntry == InitEntry /\ [][NextEntry]_vars

\* ------------------------------------------------ building the request alone
\* JSON-Schema primitive types, and what a property descriptor's type may
\* be: one of them, or left out (None).
PrimitiveTypes == {"string", "number", "integer", "boolean", "array", "object"}
PropertyTypes == PrimitiveTypes \cup {None}

\* A ToolDefinition whose parameters are an object schema of two properties.
SchemaTool(t1, t2, req) ==
    [name |-> "set_field", description |-> "Set a field",
     parameters |-> [type |-> "object",
                     properties |-> {<<"p1", Descriptor(t1)>>, <<"p2", Descriptor(t2)>>},
                     required |-> req]]
SchemaTools ==
    {SchemaTool(t1, t2, req) : t1 \in PropertyTypes, t2 \in PropertyTypes,
                               req \in SUBSET {"p1", "p2"}}

\* Conversations one message longer than Spec's.
LongMessageLists ==
    {[k \in 1..Len(rs) |-> Message(rs[k], ContentAt(k))] : rs \in SeqsUpTo(Roles, MaxMsgs + 1)}

\* The arguments of a generate call: any conversation without tools, or a
\* one-message conversation with one tool (two for the mixed list).
RequestArgs ==
    {Args("You are Samm", ms, <<>>, DefaultTemperatureTenths, DefaultMaxTokens) :
        ms \in LongMessageLists}
    \cup {Args("You are Samm", <<Message("user", "a")>>, ts,
               DefaultTemperatureTenths, DefaultMaxTokens) :
             ts \in {<<t>> : t \in SchemaTools} \cup {<<SearchMenu, t>> : t \in SchemaTools}}

\* An LLMAdapter of a registered provider without fallback, and a call of
\* generate followed up to the provider call.
InitRequest ==
    /\ provider \in Registered
    /\ model \in Models
    /\ fallback_provider = None
    /\ fallback_model = None
    /\ given \in RequestArgs
    /\ messages = given.messages
    /\ pc = "start"
    /\ inflight = {}
    /\ resolved = [a \in Attempts |-> Nil]
    /\ received = [a \in Attempts |-> Nil]
    /\ request = [a \in Attempts |-> Nil]
    /\ invoked = [a \in Attempts |-> 0]
    /\ sent = [a \in Attempts |-> 0]
    /\ attempt = [a \in Attempts |-> Nil]
    /\ e = Nil
    /\ outcome = Nil
    /\ reply = [a \in Attempts |-> Nil]
    /\ adapters = <<>> /\ calls = <<>> /\ genai = None
    /\ tenant = Nil
    /\ rq = Nil
    /\ http = Nil

NextRequest == PrimaryStart

SpecRequest == InitRequest /\ [][NextRequest]_vars

\* ------------------------------------------------------------ cancellation

\* What `except Exception` catches (adapter.py 77 and 101): every exception
\* of a provider, but not asyncio.CancelledError, which is a BaseException.
ExceptException_all(kind) == TRUE
ExceptException(kind) == kind # "CancelledError"

\* The caller's task is cancelled: the await the call is suspended at
\* raises CancelledError and the provider call is abandoned.
Cancelled(a, ctx) == Error(a, "CancelledError", "", ctx)

\* adapter.py 68-77: cancellation while the primary's call is awaited; an
\* exception the handler does not catch leaves generate.
CancelPrimary ==
    /\ pc = "primary_wait"
    /\ "primary" \in inflight
    /\ attempt' = [attempt EXCEPT !["primary"] = Raise(Cancelled("primary", Nil))]
    /\ inflight' = inflight \ {"primary"}
    /\ IF ExceptException(Cancelled("primary", Nil).kind)
       THEN /\ e' = Cancelled("primary", Nil)
            /\ pc' = "handler"
            /\ UNCHANGED outcome
       ELSE /\ outcome' = Raise(Cancelled("primary", Nil))
            /\ pc' = "done"
            /\ UNCHANGED e
    /\ UNCHANGED <<config, messages, resolved, received, request, invoked, sent,
                   reply, entry>>
    /\ UNCHANGED concurrent

\* adapter.py 92-108: cancellation while the fallback's call is awaited.
CancelFallback ==
    /\ pc = "fallback_wait"
    /\ "fallback" \in inflight
    /\ attempt' = [attempt EXCEPT !["fallback"] = Raise(Cancelled("fallback", e))]
    /\ inflight' = inflight \ {"fallback"}
    /\ outcome' = IF ExceptException(Cancelled("fallback", e).kind)
                  THEN Raise(Reraised(Cancelled("fallback", e)))
                  ELSE Raise(Cancelled("fallback", e))
    /\ pc' = "done"
    /\ UNCHANGED <<config, messages, resolved, received, request, invoked, sent,
                   e, reply, entry>>
    /\ UNCHANGED concurrent

\* An LLMAdapter of any configuration and one call of generate.
InitCancel ==
    /\ provider \in ProviderIds
    /\ model \in Models
    /\ fallback_provider \in ProviderIds
    /\ fallback_model \in FallbackModels
    /\ given = EntryArgs
    /\ messages = given.messages
    /\ pc = "start"
    /\ inflight = {}
    /\ resolved = [a \in Attempts |-> Nil]
    /\ received = [a \in Attempts |-> Nil]
    /\ request = [a \in Attempts |-> Nil]
    /\ invoked = [a \in Attempts |-> 0]
    /\ sent = [a \in Attempts |-> 0]
    /\ attempt = [a \in Attempts |-> Nil]
    /\ e = Nil
    /\ outcome = Nil
    /\ reply = [a \in Attempts |-> Nil]
    /\ adapters = <<>> /\ calls = <<>> /\ genai = None
    /\ tenant = Nil
    /\ rq = Nil
    /\ http = Nil

NextCancel ==
    PrimaryStart \/ PrimaryReply \/ Handler \/ FallbackReply
    \/ CancelPrimary \/ CancelFallback

SpecCancel == InitCancel /\ [][NextCancel]_vars

\* ------------------------------------------------------- stalled provider

\* The timeouts, in seconds, the provider's generate puts on its call:
\* `httpx.AsyncClient(timeout=60.0)` in ollama.py 73; the calls of
\* openai.py 87, anthropic.py 94 and gemini.py 128-132 are given none.
CallTimeouts(cls) == IF cls = "ollama" THEN {60} ELSE {}

\* httpx raises when the timeout of the call has passed.
TimedOut(a, ctx) == Error(a, "TimeoutException", "", ctx)

\* adapter.py 68-77: the primary's call times out; the exception enters the
\* handler like any other.
TimeoutPrimary ==
    /\ pc = "primary_wait"
    /\ "primary" \in inflight
    /\ CallTimeouts(resolved["primary"].cls) # {}
    /\ attempt' = [attempt EXCEPT !["primary"] = Raise(TimedOut("primary", Nil))]
    /\ e' = TimedOut("primary", Nil)
    /\ pc' = AfterPrimary(attempt'["primary"])
    /\ inflight' = inflight \ {"primary"}
    /\ UNCHANGED <<config, messages, resolved, received, request, invoked, sent,
                   outcome, reply, entry>>
    /\ UNCHANGED concurrent

\* adapter.py 92-108: the fallback's call times out; its exception is raised.
TimeoutFallback ==
    /\ pc = "fallback_wait"
    /\ "fallback" \in inflight
    /\ CallTimeouts(resolved["fallback"].cls) # {}
    /\ attempt' = [attempt EXCEPT !["fallback"] = Raise(TimedOut("fallback", e))]
    /\ outcome' = Raise(Reraised(TimedOut("fallback", e)))
    /\ pc' = AfterFallback(attempt'["fallback"])
    /\ inflight' = inflight \ {"fallback"}
    /\ UNCHANGED <<config, messages, resolved, received, request, invoked, sent,
                   e, reply, entry>>
    /\ UNCHANGED concurrent

NextStall ==
    PrimaryStart \/ PrimaryReply \/ Handler \/ FallbackReply
    \/ TimeoutPrimary \/ TimeoutFallback

\* The steps of generate itself are taken and a timeout that was set
\* passes; a provider's reply may never come.
SpecStall ==
    /\ InitCancel
    /\ [][NextStall]_vars
    /\ WF_vars(PrimaryStart)
    /\ WF_vars(Handler)
    /\ WF_vars(TimeoutPrimary)
    /\ WF_vars(TimeoutFallback)

\* -------------------------------------------------------- concurrent calls

\* Two LLMAdapter objects and generate calls running on them at once.
AdapterIds == {"one", "two"}
CallIds == 1..MaxCalls
AdapterFields ==
    [provider : {"openai", "gemini", "azure_openai"}, model : Models,
     fallback_provider : {None, "anthropic"}, fallback_model : {"m2"}]

\* The replies followed for concurrent calls: the call fails, or comes
\* back with a text.
TextReply(cls) ==
    CASE cls = "openai" ->
           [status |-> "ok", choices |-> <<[content |-> "hi", tool_calls |-> <<>>]>>,
            usage |-> Nil]
      [] cls = "anthropic" ->
           [status |-> "ok",
            content |-> <<[type |-> "text", text |-> "hi", name |-> None, input |-> {}]>>,
            usage |-> [input_tokens |-> 1, output_tokens |-> 2]]
      [] cls = "gemini" ->
           [status |-> "ok", candidates |-> <<<<[function_call |-> Nil, text |-> "hi"]>>>>]
      [] cls = "ollama" ->
           [status |-> "ok", content |-> "hi", tool_calls |-> <<>>,
            eval_count |-> -1, prompt_eval_count |-> -1]
ConcurrentReplies(cls) ==
    {r \in Replies(cls) : r = TextReply(cls) \/ (r.status = "error" /\ r.kind = "NetworkError")}

\* The frame of one generate call: the adapter it runs on (self), where it
\* is, the provider instance it awaits, e, what it ended with, and the
\* replies its provider calls came back with.
NewCall(on) ==
    [adapter |-> on, pc |-> "start", inst |-> Nil, e |-> Nil, outcome |-> Nil,
     got |-> <<>>]

\* What a step of generate leaves in the fields of self: generate assigns
\* none of them.
SelfAfter_swapped(self) ==
    [self EXCEPT !.provider = self.fallback_provider, !.model = self.fallback_model]
SelfAfter(self) == self

\* genai.configure(api_key=settings.gemini_api_key) in
\* GeminiProvider.__init__: the module-wide key after constructing inst.
Configure(inst, key) ==
    IF inst.ok /\ inst.cls = "gemini" THEN "settings.gemini_api_key" ELSE key

\* One step of LLMAdapter.generate on the frame c, reading self's fields
\* as they are at that step; r is the reply of the awaited provider call.
GenerateStep(c, self, r) ==
    CASE c.pc = "start" ->
           LET inst == _get_provider_instance(self.provider, self.model)
           IN  IF inst.ok
               THEN LET req == BuildRequest(inst.cls, inst.model, EntryArgs)
                    IN  IF req.ok
                        THEN [c EXCEPT !.inst = inst, !.pc = "primary_wait"]
                        ELSE [c EXCEPT !.inst = inst, !.pc = "handler",
                                       !.e = Error("primary", req.kind, req.detail, Nil)]
               ELSE [c EXCEPT !.inst = inst, !.pc = "handler",
                              !.e = Error("primary", inst.kind, inst.detail, Nil)]
      [] c.pc = "primary_wait" ->
           LET p == ParseReply(c.inst.cls, c.inst.model, r)
               att == IF p.ok THEN Return(p.response)
                      ELSE Raise(Error("primary", p.kind, p.detail, Nil))
           IN  [c EXCEPT !.got = Append(@, r), !.e = att.error,
                         !.outcome = IF p.ok THEN att ELSE @,
                         !.pc = AfterPrimary(att)]
      [] c.pc = "handler" ->
           IF Truthy(self.fallback_provider) /\ Truthy(self.fallback_model)
           THEN LET inst == _get_provider_instance(self.fallback_provider,
                                                   self.fallback_model)
                IN  IF inst.ok
                    THEN LET req == BuildRequest(inst.cls, inst.model, EntryArgs)
                         IN  IF req.ok
                             THEN [c EXCEPT !.inst = inst, !.pc = "fallback_wait"]
                             ELSE [c EXCEPT !.inst = inst, !.pc = "done",
                                            !.outcome = Raise(Error("fallback", req.kind,
                                                                    req.detail, c.e))]
                    ELSE [c EXCEPT !.inst = inst, !.pc = "done",
                                   !.outcome = Raise(Error("fallback", inst.kind,
                                                           inst.detail, c.e))]
           ELSE [c EXCEPT !.outcome = Raise(c.e), !.pc = "done"]
      [] c.pc = "fallback_wait" ->
           LET p == ParseReply(c.inst.cls, c.inst.model, r)
               att == IF p.ok THEN Return(p.response)
                      ELSE Raise(Error("fallback", p.kind, p.detail, c.e))
           IN  [c EXCEPT !.got = Append(@, r), !.outcome = att,
                         !.pc = AfterFallback(att)]

single == <<provider, model, fallback_provider, fallback_model, given, messages, pc,
            inflight, resolved, received, request, invoked, sent, attempt, e,
            outcome, reply, entry>>

\* Call k takes its next step; the other calls stay where they are.
Advance(k, r) ==
    /\ calls' = [calls EXCEPT ![k] = GenerateStep(@, adapters[@.adapter], r)]
    /\ adapters' = [adapters EXCEPT ![calls[k].adapter] = SelfAfter(@)]
    /\ UNCHANGED single

\* adapter.py 66-74 for call k.
CallStart ==
    \E k \in CallIds :
        /\ calls[k].pc = "start"
        /\ Advance(k, Nil)
        /\ genai' = Configure(calls'[k].inst, genai)

\* adapter.py 68-77 for call k: its primary's call comes back.
CallPrimaryReply ==
    \E k \in CallIds :
        /\ calls[k].pc = "primary_wait"
        /\ \E r \in ConcurrentReplies(calls[k].inst.cls) : Advance(k, r)
        /\ UNCHANGED genai

\* adapter.py 77-110 for call k, up to the fallback's await.
CallHandler ==
    \E k \in CallIds :
        /\ calls[k].pc = "handler"
        /\ Advance(k, Nil)
        /\ genai' = IF calls'[k].inst # calls[k].inst
                    THEN Configure(calls'[k].inst, genai) ELSE genai

\* adapter.py 92-108 for call k: its fallback's call comes back.
CallFallbackReply ==
    \E k \in CallIds :
        /\ calls[k].pc = "fallback_wait"
        /\ \E r \in ConcurrentReplies(calls[k].inst.cls) : Advance(k, r)
        /\ UNCHANGED genai

\* The adapters as constructed and every call at the start of generate.
InitConcurrent ==
    /\ adapters \in [AdapterIds -> AdapterFields]
    /\ calls \in {[k \in CallIds |-> NewCall(on[k])] : on \in [CallIds -> AdapterIds]}
    /\ genai = None
    /\ provider = None /\ model = None
    /\ fallback_provider = None /\ fallback_model = None
    /\ given = EntryArgs
    /\ messages = given.messages
    /\ pc = "start"
    /\ inflight = {}
    /\ resolved = [a \in Attempts |-> Nil]
    /\ received = [a \in Attempts |-> Nil]
    /\ request = [a \in Attempts |-> Nil]
    /\ invoked = [a \in Attempts |-> 0]
    /\ sent = [a \in Attempts |-> 0]
    /\ attempt = [a \in Attempts |-> Nil]
    /\ e = Nil
    /\ outcome = Nil
    /\ reply = [a \in Attempts |-> Nil]
    /\ tenant = Nil
    /\ rq = Nil
    /\ http = Nil

NextConcurrent == CallStart \/ CallPrimaryReply \/ CallHandler \/ CallFallbackReply

SpecConcurrent == InitConcurrent /\ [][NextConcurrent]_vars

\* ------------------------------------------------------------------ claims

\* The exception of the primary attempt, read off the attempt itself.
PrimaryError ==
    IF resolved["primary"] # Nil /\ ~resolved["primary"].ok
    THEN Error("primary", resolved["primary"].kind, resolved["primary"].detail, Nil)
    ELSE IF Raised(attempt["primary"]) THEN attempt["primary"].error ELSE Nil
PrimaryFailed == PrimaryError # Nil

\* C1: every response a provider's generate returns has exactly one of
\* content and tool_call populated, never both and never neither.
C1_ExactlyOneOfTextAndToolCall ==
    \A a \in Attempts :
        Returned(attempt[a]) =>
            (attempt[a].response.content # None) # (attempt[a].response.tool_call # Nil)

\* C2: when the primary has failed, a fallback pair is configured and the
\* fallback's generate returns, the response LLMAdapter.generate returns
\* carries the fallback's provider and model.
C2_FallbackIdentity ==
    (PrimaryFailed /\ Truthy(fallback_provider) /\ Truthy(fallback_model)
        /\ Returned(attempt["fallback"]))
    => /\ Returned(outcome)
       /\ outcome.response.provider = fallback_provider
       /\ outcome.response.model = fallback_model
       /\ <<fallback_provider, fallback_model>> # <<provider, model>>
            => <<outcome.response.provider, outcome.response.model>> # <<provider, model>>
C2_Witness ==
    /\ PrimaryFailed /\ sent["primary"] = 1
    /\ Returned(attempt["fallback"]) /\ Returned(outcome)
    /\ fallback_provider # provider

\* C3: when the primary has failed and no fallback pair is configured, no
\* fallback instance is resolved or invoked, and the call ends by raising
\* the primary's exception itself.
C3_NoFallbackRaisesPrimary ==
    (PrimaryFailed /\ ~(Truthy(fallback_provider) /\ Truthy(fallback_model)))
    => /\ resolved["fallback"] = Nil
       /\ invoked["fallback"] = 0 /\ sent["fallback"] = 0
       /\ pc \in {"handler", "done"}
       /\ Done => outcome = Raise(PrimaryError)
C3_Witness ==
    /\ Done /\ PrimaryFailed /\ sent["primary"] = 1
    /\ ~(Truthy(fallback_provider) /\ Truthy(fallback_model))
    /\ Raised(outcome) /\ outcome.error.origin = "primary"

\* C4: when the primary and the fallback have both failed, the exception
\* raised is the fallback's: it is not the primary's, and its class and
\* text are those the fallback attempt raised.
C4_BothFailRaisesFallback ==
    (PrimaryFailed /\ Raised(attempt["fallback"]) /\ Done)
    => /\ Raised(outcome)
       /\ outcome.error = attempt["fallback"].error
       /\ outcome.error.origin = "fallback"
       /\ outcome.error # PrimaryError
C4_Witness ==
    /\ Done /\ PrimaryFailed /\ sent["primary"] = 1 /\ sent["fallback"] = 1
    /\ Raised(attempt["fallback"]) /\ Raised(outcome)
    /\ outcome.error.kind # PrimaryError.kind

\* C5: when the primary's generate returns, LLMAdapter.generate returns
\* that response unchanged and no fallback instance is resolved or invoked;
\* a fallback instance is resolved only after the primary has failed.
C5_PrimarySuccessNoFallback ==
    /\ Returned(attempt["primary"])
        => /\ outcome = attempt["primary"]
           /\ Done
           /\ resolved["fallback"] = Nil
           /\ invoked["fallback"] = 0 /\ sent["fallback"] = 0
    /\ resolved["fallback"] # Nil => PrimaryFailed
C5_Witness ==
    /\ Returned(attempt["primary"]) /\ Done
    /\ Truthy(fallback_provider) /\ Truthy(fallback_model)
    /\ fallback_provider \in Registered

\* C6: the fallback's generate receives the system prompt, messages,
\* tools, temperature and max_tokens the caller passed, and the caller's
\* messages are never changed by an attempt.
C6_FallbackSameInputs ==
    /\ received["fallback"] # Nil => received["fallback"] = given
    /\ messages = given.messages
C6_Witness ==
    /\ received["fallback"] # Nil
    /\ resolved["primary"].ok /\ resolved["primary"].cls = "anthropic"
    /\ sent["primary"] = 1
    /\ Len(given.messages) = 2
    /\ given.messages[1].role = "system" /\ given.messages[2].role = "user"
    /\ Len(request["primary"].messages) = 1

\* C7 as stated: exactly one invocation on the primary, at most one on
\* the fallback, and one outbound call for each invocation.
C7_Original ==
    /\ pc # "start" => invoked["primary"] = 1
    /\ invoked["fallback"] <= 1
    /\ \A a \in Attempts : sent[a] = invoked[a]

\* C7 (amended): one invocation on the primary exactly when its provider
\* name is registered and none otherwise, at most one on the fallback, and
\* for each invocation at most one outbound call: exactly one unless
\* building the request raised.  No further attempt follows.
C7_AtMostTwoAttempts ==
    /\ \A a \in Attempts : invoked[a] <= 1 /\ sent[a] <= invoked[a]
    /\ pc # "start" => (invoked["primary"] = 1 <=> provider \in Registered)
    /\ \A a \in Attempts :
          (invoked[a] = 1 /\ sent[a] = 0)
              => Raised(attempt[a]) /\ attempt[a].error.kind = "AttributeError"
    /\ Done => inflight = {}
C7_Witness ==
    /\ Done /\ Raised(outcome)
    /\ invoked["primary"] = 1 /\ sent["primary"] = 1
    /\ invoked["fallback"] = 1 /\ sent["fallback"] = 1

\* C8: the primary's and the fallback's provider calls are never in flight
\* together, and the fallback is in flight only after the primary failed.
C8_NeverConcurrent ==
    /\ ~({"primary", "fallback"} \subseteq inflight)
    /\ (("fallback" \in inflight) \/ invoked["fallback"] > 0)
          => PrimaryFailed /\ "primary" \notin inflight
C8_Witness ==
    /\ "fallback" \in inflight
    /\ sent["primary"] = 1 /\ Raised(attempt["primary"])

\* C9: when resolving the primary provider raised the configuration error,
\* no fallback attempt is made and that error is what the call raises.
C9_ConfigErrorNotRetried ==
    (resolved["primary"] # Nil /\ ~resolved["primary"].ok)
    => /\ resolved["fallback"] = Nil
       /\ invoked["fallback"] = 0
       /\ Done => outcome = Raise(PrimaryError)

\* C10: a lookup of a name other than openai, anthropic, gemini, ollama
\* raises ValueError and constructs nothing; a lookup of one of the four
\* gives that provider's instance.
LookedUp(a) == IF a = "primary" THEN provider ELSE fallback_provider
C10_UnknownProviderRaises ==
    \A a \in Attempts :
        resolved[a] # Nil =>
            IF LookedUp(a) \in {"openai", "anthropic", "gemini", "ollama"}
            THEN resolved[a].ok /\ resolved[a].cls = LookedUp(a)
            ELSE ~resolved[a].ok /\ resolved[a].kind = "ValueError" /\ invoked[a] = 0
C10_Witness ==
    /\ resolved["primary"] # Nil /\ provider \in {"", None}
    /\ ~resolved["primary"].ok
    /\ Done

\* C11: when the primary has failed and a fallback pair is configured whose
\* provider name is not registered, LLMAdapter.generate raises the
\* fallback's configuration error, which is not the primary's error, and
\* the fallback provider is neither invoked nor called.
C11_FallbackConfigErrorIsHard ==
    (PrimaryFailed /\ Truthy(fallback_provider) /\ Truthy(fallback_model)
        /\ fallback_provider \notin Registered /\ Done)
    => /\ Raised(outcome)
       /\ outcome.error.origin = "fallback"
       /\ outcome.error.kind = "ValueError"
       /\ outcome.error # PrimaryError
       /\ invoked["fallback"] = 0
       /\ sent["fallback"] = 0
       /\ request["fallback"] = Nil
C11_Witness ==
    /\ Done /\ sent["primary"] = 1 /\ Raised(attempt["primary"])
    /\ Truthy(fallback_provider) /\ Truthy(fallback_model)
    /\ fallback_provider \notin Registered
    /\ resolved["fallback"] # Nil /\ ~resolved["fallback"].ok

\* The LLMAdapter of the entry point's request has been constructed.
Constructed == pc \notin {"entry", "answered"}

\* C12: the LLMAdapter is always constructed with fallback provider and
\* fallback model both present or both absent, whatever LLM-config updates
\* the tenant's row has been through.
C12_FallbackPairComplete ==
    Constructed => ((fallback_provider = None) <=> (fallback_model = None))

\* C13: the entry point constructs the LLMAdapter with the request's
\* provider and model where given, else the tenant's stored ones, else
\* openai and gpt-4-turbo; so never with a missing provider or model.
C13_LayeredResolution ==
    LET Layered(requested, stored, default) ==
            IF Truthy(requested) THEN requested
            ELSE IF Truthy(stored) THEN stored ELSE default
    IN
    (Constructed /\ rq # Nil)
    => /\ provider = Layered(rq.provider,
                             IF tenant = Nil THEN None ELSE tenant.llm_provider,
                             "openai")
       /\ model = Layered(rq.model,
                          IF tenant = Nil THEN None ELSE tenant.llm_model,
                          "gpt-4-turbo")
       /\ Truthy(provider) /\ Truthy(model)

\* C14: without a row for the tenant the LLMAdapter is constructed with
\* the request's provider and model where supplied and openai, gpt-4-turbo
\* where not, and with no fallback pair, so no fallback attempt is made.
C14_NoTenantSystemDefaults ==
    (Constructed /\ rq # Nil /\ tenant = Nil)
    => /\ provider = IF Truthy(rq.provider) THEN rq.provider ELSE "openai"
       /\ model = IF Truthy(rq.model) THEN rq.model ELSE "gpt-4-turbo"
       /\ fallback_provider = None /\ fallback_model = None
       /\ resolved["fallback"] = Nil /\ invoked["fallback"] = 0
C14_Witness ==
    /\ tenant = Nil /\ rq # Nil /\ rq.provider = None /\ rq.model = "m1"
    /\ provider = "openai" /\ model = "m1"
    /\ http # Nil /\ http.status_code = 500

\* C15: the answer to a failed generate request does not depend on the
\* error's text: the same failure with another text gets the same answer.
C15_GenericFailureResponse ==
    (http # Nil /\ Raised(outcome))
    => \A text \in {"vendor body", "another vendor body"} :
          ErrorResponse([outcome.error EXCEPT !.detail = text]) = http

\* C16 as stated: the Anthropic adapter sends one message per run of
\* consecutive input messages of the same role, its content the run's
\* contents joined by newlines in order, the runs in their order.
C16_Original ==
    \A a \in Attempts :
        (request[a] # Nil /\ resolved[a].cls = "anthropic" /\ received[a].messages # <<>>)
        => LET in == received[a].messages
               out == request[a].messages
               role(k) == in[k].role
               RECURSIVE Join(_, _)
               Join(i, j) == IF i = j THEN in[i].content
                             ELSE Join(i, j - 1) \o "\n" \o in[j].content
               starts == {k \in 1..Len(in) : k = 1 \/ role(k) # role(k - 1)}
               end(s) == CHOOSE k \in s..Len(in) :
                            /\ \A j \in s..k : role(j) = role(s)
                            /\ k = Len(in) \/ role(k + 1) # role(s)
               index(s) == Cardinality({t \in starts : t <= s})
           IN  /\ Len(out) = Cardinality(starts)
               /\ \A s \in starts : out[index(s)].content = Join(s, end(s))

\* C16: the Anthropic adapter rewrites the role system to user and then
\* sends one message per run of consecutive messages of the same role, with
\* that role, its content the run's contents joined by newlines in order,
\* the runs in their order.
C16_RunsMergedAfterRewrite ==
    \A a \in Attempts :
        (request[a] # Nil /\ resolved[a].cls = "anthropic" /\ received[a].messages # <<>>)
        => LET in == received[a].messages
               out == request[a].messages
               role(k) == IF in[k].role = "system" THEN "user" ELSE in[k].role
               RECURSIVE Join(_, _)
               Join(i, j) == IF i = j THEN in[i].content
                             ELSE Join(i, j - 1) \o "\n" \o in[j].content
               starts == {k \in 1..Len(in) : k = 1 \/ role(k) # role(k - 1)}
               end(s) == CHOOSE k \in s..Len(in) :
                            /\ \A j \in s..k : role(j) = role(s)
                            /\ k = Len(in) \/ role(k + 1) # role(s)
               index(s) == Cardinality({t \in starts : t <= s})
           IN  /\ Len(out) = Cardinality(starts)
               /\ \A s \in starts :
                     out[index(s)] = Message(role(s), Join(s, end(s)))
C16_Witness ==
    /\ request["primary"] # Nil /\ resolved["primary"].cls = "anthropic"
    /\ Len(received["primary"].messages) = 3
    /\ received["primary"].messages[1].role = "assistant"
    /\ received["primary"].messages[2].role = "user"
    /\ received["primary"].messages[3].role = "user"
    /\ request["primary"].messages = <<Message("assistant", "a"), Message("user", "b\nc")>>

\* The attempt's provider call came back with a reply envelope holding at
\* least one tool call.
ToolReply(a) ==
    /\ reply[a] # Nil /\ reply[a].status = "ok"
    /\ ToolCallsOf(resolved[a].cls, reply[a]) # <<>>

\* C17: when the reply holds a tool call and prose, in whatever order, the
\* response the provider's generate returns is a tool_call whose content
\* is absent.
C17_ToolCallDiscardsProse ==
    \A a \in Attempts :
        (Returned(attempt[a]) /\ ToolReply(a) /\ HasProse(resolved[a].cls, reply[a]))
        => /\ attempt[a].response.type = "tool_call"
           /\ attempt[a].response.tool_call # Nil
           /\ attempt[a].response.content = None

\* C18: when the reply holds tool calls, the response's tool_call is the
\* first of them in reply order (for Gemini over all candidates and parts).
C18_FirstToolCallWins ==
    \A a \in Attempts :
        (Returned(attempt[a]) /\ ToolReply(a))
        => /\ attempt[a].response.tool_call # Nil
           /\ attempt[a].response.tool_call.name
                 = ToolCallsOf(resolved[a].cls, reply[a])[1].name

\* C19: arguments that arrive as a serialized string are decoded into the
\* mapping; when they cannot be decoded or the reply has none, the
\* provider's generate raises instead of returning a tool_call.
C19_ArgumentsDecodedOrFail ==
    \A a \in Attempts :
        (attempt[a] # Nil /\ ToolReply(a) /\ resolved[a].cls \in {"openai", "ollama"})
        => LET arguments == ToolCallsOf(resolved[a].cls, reply[a])[1].arguments
               serialized == IF resolved[a].cls = "openai" THEN arguments
                             ELSE IF arguments = Absent THEN None
                             ELSE IF arguments.t = "str" THEN arguments.v ELSE "<dict>"
           IN  CASE serialized = None -> Raised(attempt[a])
                 [] serialized = "<dict>" -> TRUE
                 [] serialized = ArgsJson ->
                        /\ Returned(attempt[a])
                        /\ attempt[a].response.tool_call # Nil
                        /\ attempt[a].response.tool_call.arguments = PizzaArgs
                 [] OTHER -> Raised(attempt[a])

\* C20: the tool declaration every adapter puts in its request has the
\* tool's required names and property names, and for each property whose
\* type is a JSON-Schema primitive type a type from which that type is read
\* back (Gemini's upper-case name back to the lower-case one).
C20_ToolTranslationPreserves ==
    \A a \in Attempts :
        (request[a] # Nil /\ received[a].tools # <<>>)
        => LET cls == resolved[a].cls
               tools == received[a].tools
               sent_tools == request[a].tools
               Lower(T) == CASE T = "STRING" -> "string" [] T = "NUMBER" -> "number"
                             [] T = "INTEGER" -> "integer" [] T = "BOOLEAN" -> "boolean"
                             [] T = "ARRAY" -> "array" [] T = "OBJECT" -> "object"
               count == IF cls = "gemini" THEN Len(sent_tools[1].function_declarations)
                        ELSE Len(sent_tools)
               schema(k) == CASE cls = "anthropic" -> sent_tools[k].input_schema
                              [] cls = "gemini" ->
                                     sent_tools[1].function_declarations[k].parameters
                              [] OTHER -> sent_tools[k].function.parameters
               recovered(k, name) ==
                   LET d == CHOOSE q \in schema(k).properties : q[1] = name
                   IN  IF cls = "gemini" THEN Lower(d[2].type) ELSE d[2].type
           IN  /\ count = Len(tools)
               /\ \A k \in 1..Len(tools) :
                     /\ schema(k).required = tools[k].parameters.required
                     /\ {q[1] : q \in schema(k).properties}
                           = {q[1] : q \in tools[k].parameters.properties}
                     /\ \A q \in tools[k].parameters.properties :
                           q[2].type \in PrimitiveTypes => recovered(k, q[1]) = q[2].type
C20_Witness ==
    /\ request["primary"] # Nil /\ resolved["primary"].cls = "gemini"
    /\ received["primary"].tools = <<SchemaTool("integer", "array", {"p1"})>>
    /\ request["primary"].tools[1].function_declarations[1].parameters.required = {"p1"}
    /\ <<"p1", [type |-> "INTEGER", description |-> ""]>>
          \in request["primary"].tools[1].function_declarations[1].parameters.properties

\* C21: an operation guarded by verify_tenant_access answers 403 to a user
\* who is not a super admin and whose tenant is not the path's tenant, and
\* never answers a super admin with the 403 of a denied access.
C21_TenantAccess ==
    pc = "answered"
    => /\ (http.user.role # "super_admin" /\ ~http.user.own) => http.status_code = 403
       /\ http.user.role = "super_admin" => http.status_code # 403
C21_Witness ==
    /\ pc = "answered" /\ http.op = "list_calls"
    /\ http.user = [role |-> "restaurant_admin", own |-> FALSE]
    /\ http.status_code = 403

\* C22: the message list of the Anthropic adapter's request holds no
\* message with role system and no two adjacent messages of the same role;
\* the system prompt is the request's top-level system field.
C22_AnthropicAlternates ==
    \A a \in Attempts :
        (request[a] # Nil /\ resolved[a].cls = "anthropic")
        => LET out == request[a].messages
           IN  /\ \A k \in 1..Len(out) : out[k].role # "system"
               /\ \A k \in 1..(Len(out) - 1) : out[k].role # out[k + 1].role
               /\ "system" \in request[a].keys
               /\ request[a].system = received[a].system_prompt
C22_Witness ==
    /\ request["primary"] # Nil /\ resolved["primary"].cls = "anthropic"
    /\ Len(received["primary"].messages) = 3
    /\ received["primary"].messages[1].role = "system"
    /\ received["primary"].messages[2].role = "user"
    /\ received["primary"].messages[3].role = "user"
    /\ request["primary"].messages = <<Message("user", "a\nb\nc")>>

\* C23 as stated: no request has an empty message list, and for an empty
\* conversation the list sent is the one message user "Hello" (for Gemini
\* an empty history and the message "Hello").
C23_Original ==
    \A a \in Attempts :
        request[a] # Nil
        => IF resolved[a].cls = "gemini"
           THEN received[a].messages = <<>>
                   => request[a].history = <<>> /\ request[a].message = "Hello"
           ELSE /\ request[a].messages # <<>>
                /\ received[a].messages = <<>>
                      => request[a].messages = <<Message("user", "Hello")>>

\* C23: no request has an empty message list.  For an empty conversation
\* the Anthropic adapter sends the one message user "Hello", the Gemini
\* adapter an empty history and the message "Hello" after the system prompt
\* and a blank line, the OpenAI and Ollama adapters the system message
\* alone.
C23_NeverEmptyList ==
    \A a \in Attempts :
        request[a] # Nil
        => LET cls == resolved[a].cls
               empty == received[a].messages = <<>>
           IN  CASE cls = "anthropic" ->
                       /\ request[a].messages # <<>>
                       /\ empty => request[a].messages = <<Message("user", "Hello")>>
                 [] cls = "gemini" ->
                       /\ request[a].message # ""
                       /\ empty => /\ request[a].history = <<>>
                                   /\ request[a].message
                                         = received[a].system_prompt \o "\n\nHello"
                 [] OTHER ->
                       /\ request[a].messages # <<>>
                       /\ empty => request[a].messages
                                      = <<Message("system", received[a].system_prompt)>>
C23_Witness ==
    /\ request["primary"] # Nil /\ resolved["primary"].cls = "anthropic"
    /\ received["primary"].messages = <<>>
    /\ request["primary"].messages = <<Message("user", "Hello")>>

\* C24: a request built with tools carries the translated tools and an
\* explicit automatic tool selection; a request built without tools
\* carries neither.
C24_ToolsWithAutoChoice ==
    \A a \in Attempts :
        request[a] # Nil
        => LET selection == {"tool_choice", "tool_config"} \cap request[a].keys
           IN  IF received[a].tools # <<>>
               THEN "tools" \in request[a].keys /\ request[a].tools # <<>>
                    /\ selection # {}
               ELSE "tools" \notin request[a].keys /\ selection = {}

\* C25: the response's usage is absent unless the reply reported usage,
\* and a count in it is the reply's count: zero only for a reported zero.
C25_UsageOnlyIfReported ==
    \A a \in Attempts :
        (Returned(attempt[a]) /\ reply[a] # Nil /\ reply[a].status = "ok")
        => LET cls == resolved[a].cls
               usage == attempt[a].response.usage
           IN  CASE cls = "openai" -> reply[a].usage = Nil => usage = Nil
                 [] cls = "gemini" -> usage = Nil
                 [] cls = "ollama" ->
                       /\ (reply[a].eval_count = -1 /\ reply[a].prompt_eval_count = -1)
                             => usage = Nil
                       /\ usage # Nil
                             => /\ usage.prompt_tokens = 0
                                      => reply[a].prompt_eval_count = 0
                                /\ usage.completion_tokens = 0
                                      => reply[a].eval_count = 0
                 [] OTHER -> TRUE

\* C29: a provider name stored in the tenant's row, which update_llm_config
\* accepted or the column defaults gave, is one _get_provider_instance
\* constructs: looking it up never raises.
C29_AcceptedProvidersConstructible ==
    \A a \in Attempts :
        (Constructed /\ tenant # Nil /\ resolved[a] # Nil
            /\ LookedUp(a) \in AVAILABLE_PROVIDERS
            /\ LookedUp(a) = IF a = "primary" THEN tenant.llm_provider
                             ELSE tenant.fallback_llm_provider)
        => resolved[a].ok

\* C30: with exactly one of fallback_provider and fallback_model set, the
\* other None or empty, a failed primary is followed by no fallback lookup
\* and no fallback attempt, and the call raises the primary's error.
C30_HalfPairIsNoFallback ==
    (PrimaryFailed /\ Done /\ (Truthy(fallback_provider) # Truthy(fallback_model)))
    => /\ outcome = Raise(PrimaryError)
       /\ resolved["fallback"] = Nil
       /\ invoked["fallback"] = 0 /\ sent["fallback"] = 0
C30_Witness ==
    /\ Done /\ sent["primary"] = 1 /\ Raised(attempt["primary"])
    /\ fallback_provider = "anthropic" /\ fallback_model = ""
    /\ outcome = Raise(attempt["primary"].error)

\* C27: when the caller is cancelled while an attempt is in flight, the
\* provider call is abandoned, the cancellation is what generate raises,
\* and no further attempt is made: a cancelled primary starts no fallback.
C27_CancellationPropagates ==
    \A a \in Attempts :
        (Raised(attempt[a]) /\ attempt[a].error.kind = "CancelledError") =>
            /\ Done
            /\ outcome = Raise(attempt[a].error)
            /\ inflight = {}
            /\ reply[a] = Nil
            /\ invoked[a] = 1
            /\ a = "primary" =>
                  /\ resolved["fallback"] = Nil
                  /\ invoked["fallback"] = 0
                  /\ attempt["fallback"] = Nil

\* The primary's call is cancelled under a fallback pair that would have
\* been tried had the primary failed.
C27_Witness ==
    /\ Raised(attempt["primary"])
    /\ attempt["primary"].error.kind = "CancelledError"
    /\ FallbackConfigured
    /\ FallbackInstance.ok
    /\ Done

\* C28: every generate call eventually ends, with a response or an
\* exception, even when a provider never replies.
C28_EventuallyEnds == <>Done

\* C26: concurrent generate calls, on the same adapter or on different
\* ones, do not interfere: no step of any call changes an adapter's
\* provider, model or fallback fields or replaces the key genai was
\* configured with, and under every interleaving a call
\* that has ended has the outcome (response or exception, with the provider
\* and model stamped on it) that generate gives when it runs alone on its
\* adapter with the replies this call received.
C26_ConcurrentCallsIndependent ==
    [][LET Run(c, self, r) == IF c.pc = "done" THEN c ELSE GenerateStep(c, self, r)
           Alone(on, got) ==
               LET self == adapters[on]
                   s1 == Run(NewCall(on), self, Nil)
                   s2 == IF s1.pc = "primary_wait" THEN Run(s1, self, got[1]) ELSE s1
                   s3 == IF s2.pc = "handler" THEN Run(s2, self, Nil) ELSE s2
                   s4 == IF s3.pc = "fallback_wait"
                         THEN Run(s3, self, got[Len(got)]) ELSE s3
               IN  s4
       IN  /\ adapters' = adapters
           /\ genai # None => genai' = genai
           /\ \A k \in CallIds :
                 calls'[k].pc = "done" =>
                    /\ Alone(calls'[k].adapter, calls'[k].got).pc = "done"
                    /\ calls'[k].outcome = Alone(calls'[k].adapter, calls'[k].got).outcome
      ]_vars

\* Two calls on the same adapter overlap: the first has failed over to the
\* fallback and returned its response while the second still awaits the
\* primary.
C26_Witness ==
    /\ calls # <<>>
    /\ calls[1].adapter = calls[2].adapter
    /\ calls[1].pc = "done"
    /\ Len(calls[1].got) = 2
    /\ Returned(calls[1].outcome)
    /\ calls[2].pc = "primary_wait"

====
